---- MODULE Spec2Model ----
(***************************************************************************)
(* tablereader: typed extraction of a rectangular table from a CSV file or *)
(* a workbook sheet.  The model follows one extraction: the row source     *)
(* (csv.table_iterator / xls.table_iterator), the sample, the format       *)
(* inference and the typed rows produced by parser.parse_iterator.         *)
(*                                                                         *)
(* A cell text is a sequence of characters, each character a one-element   *)
(* string; characters outside ASCII are written by name ("<emdash>").      *)
(***************************************************************************)
EXTENDS Integers, Sequences, FiniteSets, TLC

(***************************************************************************)
(* Python str helpers                                                      *)
(***************************************************************************)

\* the whitespace characters of the cell alphabet (str.strip, regex \s)
Whitespace == {" ", "\t"}

Digits == <<"0", "1", "2", "3", "4", "5", "6", "7", "8", "9">>

UpperCase == <<"A", "B", "C", "D", "E", "F", "G", "H", "I", "J", "K", "L", "M",
               "N", "O", "P", "Q", "R", "S", "T", "U", "V", "W", "X", "Y", "Z">>

LowerCase == <<"a", "b", "c", "d", "e", "f", "g", "h", "i", "j", "k", "l", "m",
               "n", "o", "p", "q", "r", "s", "t", "u", "v", "w", "x", "y", "z">>

IsDigit(c) == \E i \in 1..10 : Digits[i] = c

DigitVal(c) == (CHOOSE i \in 1..10 : Digits[i] = c) - 1

\* str.lower() on one character
LowerChar(c) ==
    IF \E i \in 1..26 : UpperCase[i] = c
    THEN LowerCase[CHOOSE i \in 1..26 : UpperCase[i] = c]
    ELSE c

\* str.lower()
Lower(s) == [i \in 1..Len(s) |-> LowerChar(s[i])]

\* s[a..b] (1-based, inclusive), empty when a > b
Slice(s, a, b) == IF a > b THEN <<>> ELSE SubSeq(s, a, b)

\* str.strip(): drop leading and trailing whitespace
Strip(s) ==
    LET keep == {i \in 1..Len(s) : s[i] \notin Whitespace}
    IN  IF keep = {} THEN <<>>
        ELSE Slice(s, CHOOSE i \in keep : \A j \in keep : i <= j,
                      CHOOSE i \in keep : \A j \in keep : j <= i)

\* str.replace(c, "") and re.sub("[...]", "", s): drop every character of cs
RECURSIVE Remove(_, _)
Remove(s, cs) ==
    IF s = <<>> THEN <<>>
    ELSE IF Head(s) \in cs THEN Remove(Tail(s), cs)
         ELSE <<Head(s)>> \o Remove(Tail(s), cs)

\* str.replace(a, b) for single characters
ReplaceChar(s, a, b) == [i \in 1..Len(s) |-> IF s[i] = a THEN b ELSE s[i]]

(***************************************************************************)
(* Values and exceptions                                                   *)
(***************************************************************************)

NoneVal == [kind |-> "None"]

StrVal(s) == [kind |-> "str", chars |-> s]

\* a float m * 10^e, kept with m not divisible by 10 (0 is 0 * 10^0)
RECURSIVE Norm(_, _)
Norm(m, e) ==
    IF m = 0 THEN [kind |-> "float", mant |-> 0, exp |-> 0]
    ELSE IF m % 10 = 0 THEN Norm(m \div 10, e + 1)
         ELSE [kind |-> "float", mant |-> m, exp |-> e]

FloatSpecial(w) == [kind |-> "float", special |-> w]

Raise(exc) == [kind |-> "raise", exc |-> exc]

IsRaise(v) == v.kind = "raise"

(***************************************************************************)
(* Null Normalizer: parser.clean_nulls and parser.with_clean               *)
(***************************************************************************)

NULL_VALUES ==
    { <<>>,
      <<"n", "u", "l", "l">>,
      <<"n", "o", "n", "e">>,
      <<"n", "/", "a">>,
      <<"n", "a">>,
      <<"#", "n", "a">>,
      <<"n", "a", "n">>,
      <<"-">>,
      <<"-", "-">>,
      <<"<emdash>">>,
      <<"<endash>">>,
      <<"?">>,
      <<"?", "?", "?">>,
      <<".">>,
      <<".", ".">>,
      <<".", ".", ".">> }

\* clean_nulls: None for a null-like cell, else the stripped, lower-cased text
\* (row cells are always str, so the "value is None" test never fires)
clean_nulls(value) ==
    LET v == Lower(Strip(value))
    IN  IF v \in NULL_VALUES THEN NoneVal ELSE StrVal(v)

(***************************************************************************)
(* float(): the numeric conversion of parse_number                         *)
(***************************************************************************)

RECURSIVE DigitsToInt(_)
DigitsToInt(ds) ==
    IF ds = <<>> THEN 0
    ELSE 10 * DigitsToInt(Slice(ds, 1, Len(ds) - 1)) + DigitVal(ds[Len(ds)])

AllDigits(s) == \A i \in 1..Len(s) : IsDigit(s[i])

\* [sign] and the rest
Unsigned(s) == IF s # <<>> /\ s[1] \in {"+", "-"} THEN Tail(s) ELSE s

SignOf(s) == IF s # <<>> /\ s[1] = "-" THEN -1 ELSE 1

\* the position of the first c in s, Len(s) + 1 when there is none
FirstIndex(s, c) ==
    IF \E i \in 1..Len(s) : s[i] = c
    THEN CHOOSE i \in 1..Len(s) : s[i] = c /\ \A j \in 1..(i - 1) : s[j] # c
    ELSE Len(s) + 1

\* of an unsigned literal: the part before "e" and the part after it
Mantissa(body) == Slice(body, 1, FirstIndex(body, "e") - 1)

Exponent(body) == Slice(body, FirstIndex(body, "e") + 1, Len(body))

HasExponent(body) == FirstIndex(body, "e") <= Len(body)

IntPart(man) == Slice(man, 1, FirstIndex(man, ".") - 1)

FracPart(man) == Slice(man, FirstIndex(man, ".") + 1, Len(man))

\* digits [. [digits]] | . digits
DecimalOk(man) ==
    /\ AllDigits(IntPart(man))
    /\ AllDigits(FracPart(man))
    /\ Len(IntPart(man)) + Len(FracPart(man)) >= 1

\* [e [sign] digits]
ExponentOk(body) ==
    HasExponent(body) =>
        Unsigned(Exponent(body)) # <<>> /\ AllDigits(Unsigned(Exponent(body)))

ExponentVal(body) ==
    IF HasExponent(body)
    THEN SignOf(Exponent(body)) * DigitsToInt(Unsigned(Exponent(body)))
    ELSE 0

\* float(s) for a lower-cased s without whitespace:
\*   [sign] (digits [. [digits]] | . digits) [e [sign] digits]  |  [sign] inf | infinity | nan
\* (the cell alphabet has no "_" digit separator); ValueError otherwise
FloatOf(s) ==
    IF Unsigned(s) \in {<<"i", "n", "f">>, <<"i", "n", "f", "i", "n", "i", "t", "y">>}
    THEN FloatSpecial(IF SignOf(s) = 1 THEN "inf" ELSE "-inf")
    ELSE IF Unsigned(s) = <<"n", "a", "n">> THEN FloatSpecial("nan")
    ELSE IF DecimalOk(Mantissa(Unsigned(s))) /\ ExponentOk(Unsigned(s))
         THEN Norm(SignOf(s) * DigitsToInt(IntPart(Mantissa(Unsigned(s)))
                                           \o FracPart(Mantissa(Unsigned(s)))),
                   ExponentVal(Unsigned(s)) - Len(FracPart(Mantissa(Unsigned(s)))))
         ELSE Raise("ValueError")

(***************************************************************************)
(* parser.parse_number (the body under @with_clean)                        *)
(***************************************************************************)

\* the currency glyphs and whitespace removed by re.sub(r"[€$£¥\s]", "", value)
CurrencyOrSpace == {"$", "<euro>", "<pound>", "<yen>"} \cup Whitespace

\* parse_number without its "," branch: every "," removed, "." kept,
\* whatever the decimal separator
parse_number_inner_us(value, decimal_separator) ==
    LET v1 == Remove(value, {" "})
        is_percentage == v1 # <<>> /\ v1[Len(v1)] = "%"
        v2 == IF is_percentage THEN Strip(Slice(v1, 1, Len(v1) - 1)) ELSE v1
        result == FloatOf(Remove(Remove(v2, CurrencyOrSpace), {","}))
    IN  IF IsRaise(result) THEN result
        ELSE IF is_percentage /\ "mant" \in DOMAIN result
             THEN Norm(result.mant, result.exp - 2)
             ELSE result

parse_number_inner(value, decimal_separator) ==
    LET v1 == Remove(value, {" "})
        is_percentage == v1 # <<>> /\ v1[Len(v1)] = "%"
        v2 == IF is_percentage THEN Strip(Slice(v1, 1, Len(v1) - 1)) ELSE v1
        v3 == Remove(v2, CurrencyOrSpace)
        v4 == IF decimal_separator = ","
              THEN ReplaceChar(Remove(v3, {"."}), ",", ".")
              ELSE Remove(v3, {","})
        result == FloatOf(v4)
    IN  IF IsRaise(result) THEN result
        ELSE IF is_percentage /\ "mant" \in DOMAIN result
             THEN Norm(result.mant, result.exp - 2)
             ELSE result

(***************************************************************************)
(* datetime.strptime(value, fmt), as parse_date, parse_datetime and        *)
(* parse_time call it.  A format is a sequence of tokens: a directive      *)
(* ("%Y") or a literal character.  strptime compiles the format into a     *)
(* regular expression (IGNORECASE, a blank standing for \s+), matches it   *)
(* at the start of the value, rejects unconverted trailing data, and       *)
(* builds the datetime, which validates the calendar day.                  *)
(***************************************************************************)

Fmt(toks) == [kind |-> "fmt", toks |-> toks]

MonthNames ==
    << <<"j", "a", "n", "u", "a", "r", "y">>,
       <<"f", "e", "b", "r", "u", "a", "r", "y">>,
       <<"m", "a", "r", "c", "h">>,
       <<"a", "p", "r", "i", "l">>,
       <<"m", "a", "y">>,
       <<"j", "u", "n", "e">>,
       <<"j", "u", "l", "y">>,
       <<"a", "u", "g", "u", "s", "t">>,
       <<"s", "e", "p", "t", "e", "m", "b", "e", "r">>,
       <<"o", "c", "t", "o", "b", "e", "r">>,
       <<"n", "o", "v", "e", "m", "b", "e", "r">>,
       <<"d", "e", "c", "e", "m", "b", "e", "r">> >>

\* calendar.month_abbr: the first three letters
MonthAbbr == [i \in 1..12 |-> SubSeq(MonthNames[i], 1, 3)]

IsDirective(t) == t \in {"%Y", "%y", "%m", "%d", "%H", "%I", "%M", "%S", "%p", "%b", "%B"}

IsPrefix(p, s) == Len(p) <= Len(s) /\ SubSeq(s, 1, Len(p)) = p

\* the two-digit alternatives of a numeric directive's regex, as a value range
TwoDigitRange(t) ==
    CASE t = "%d" -> 1..31      \* 3[0-1]|[1-2]\d|0[1-9]
      [] t = "%m" -> 1..12      \* 1[0-2]|0[1-9]
      [] t = "%I" -> 1..12      \* 1[0-2]|0[1-9]
      [] t = "%H" -> 0..23      \* 2[0-3]|[0-1]\d
      [] t = "%M" -> 0..59      \* [0-5]\d
      [] t = "%S" -> 0..61      \* 6[0-1]|[0-5]\d
      [] t = "%y" -> 0..99      \* \d\d

\* its one-digit alternative
OneDigitRange(t) ==
    CASE t \in {"%d", "%m", "%I"} -> 1..9       \* [1-9]
      [] t \in {"%H", "%M", "%S"} -> 0..9       \* \d
      [] t = "%y" -> {}

\* month names that start s, longest first (the regex lists them by length)
RECURSIVE NameCands(_, _, _)
NameCands(names, s, len) ==
    IF len = 0 THEN <<>>
    ELSE LET hit == {i \in 1..12 : Len(names[i]) = len /\ IsPrefix(names[i], s)}
         IN  (IF hit = {} THEN <<>>
              ELSE <<[len |-> len, val |-> CHOOSE i \in hit : TRUE]>>)
             \o NameCands(names, s, len - 1)

\* the ways directive t can match a prefix of s, in the regex's order of
\* preference: each is the length consumed and the value read
Cands(t, s) ==
    CASE t = "%Y" ->
           IF Len(s) >= 4 /\ AllDigits(SubSeq(s, 1, 4))
           THEN <<[len |-> 4, val |-> DigitsToInt(SubSeq(s, 1, 4))]>> ELSE <<>>
      [] t = "%p" ->
           IF IsPrefix(<<"a", "m">>, s) THEN <<[len |-> 2, val |-> 0]>>
           ELSE IF IsPrefix(<<"p", "m">>, s) THEN <<[len |-> 2, val |-> 1]>>
           ELSE <<>>
      [] t = "%b" -> NameCands(MonthAbbr, s, 3)
      [] t = "%B" -> NameCands(MonthNames, s, 9)
      [] OTHER ->
           (IF /\ Len(s) >= 2 /\ AllDigits(SubSeq(s, 1, 2))
               /\ DigitsToInt(SubSeq(s, 1, 2)) \in TwoDigitRange(t)
            THEN <<[len |-> 2, val |-> DigitsToInt(SubSeq(s, 1, 2))]>> ELSE <<>>)
           \o
           (IF /\ Len(s) >= 1 /\ IsDigit(s[1])
               /\ DigitVal(s[1]) \in OneDigitRange(t)
            THEN <<[len |-> 1, val |-> DigitVal(s[1])]>> ELSE <<>>)
           \o
           (IF /\ t = "%d" /\ Len(s) >= 2 /\ s[1] = " " /\ IsDigit(s[2])
               /\ DigitVal(s[2]) \in 1..9
            THEN <<[len |-> 2, val |-> DigitVal(s[2])]>> ELSE <<>>)   \* " [1-9]"

\* length of the leading whitespace run of s
RECURSIVE WsRun(_)
WsRun(s) == IF s # <<>> /\ s[1] \in Whitespace THEN 1 + WsRun(Tail(s)) ELSE 0

NoMatch == [ok |-> FALSE]

\* re.match of the compiled format against s: the first match in the
\* regex's order of preference, with the fields read and the text left over
RECURSIVE Match(_, _, _)
RECURSIVE TryCands(_, _, _, _, _)
RECURSIVE TryWs(_, _, _, _)
Match(s, toks, fields) ==
    IF toks = <<>> THEN [ok |-> TRUE, rest |-> s, fields |-> fields]
    ELSE LET t == Head(toks)
         IN  IF IsDirective(t) THEN TryCands(Cands(t, s), t, s, Tail(toks), fields)
             ELSE IF t = " " THEN TryWs(WsRun(s), s, Tail(toks), fields)
             ELSE IF s # <<>> /\ LowerChar(s[1]) = LowerChar(t)
                  THEN Match(Tail(s), Tail(toks), fields)
                  ELSE NoMatch

TryCands(cands, t, s, toks, fields) ==
    IF cands = <<>> THEN NoMatch
    ELSE LET c == Head(cands)
             m == Match(Slice(s, c.len + 1, Len(s)), toks, [fields EXCEPT ![t] = c.val])
         IN  IF m.ok THEN m ELSE TryCands(Tail(cands), t, s, toks, fields)

\* \s+ is greedy: the longest run first, then shorter ones
TryWs(n, s, toks, fields) ==
    IF n = 0 THEN NoMatch
    ELSE LET m == Match(Slice(s, n + 1, Len(s)), toks, fields)
         IN  IF m.ok THEN m ELSE TryWs(n - 1, s, toks, fields)

Unset == -1

NoFields ==
    [t \in {"%Y", "%y", "%m", "%d", "%H", "%I", "%M", "%S", "%p", "%b", "%B"} |-> Unset]

IsLeap(y) == (y % 4 = 0 /\ y % 100 # 0) \/ y % 400 = 0

DaysInMonth(y, m) ==
    IF m = 2 THEN (IF IsLeap(y) THEN 29 ELSE 28)
    ELSE IF m \in {4, 6, 9, 11} THEN 30 ELSE 31

\* the datetime built from the matched fields (defaults 1900-01-01 00:00:00)
DatetimeOf(f) ==
    LET year   == IF f["%Y"] # Unset THEN f["%Y"]
                  ELSE IF f["%y"] # Unset
                       THEN (IF f["%y"] <= 68 THEN 2000 + f["%y"] ELSE 1900 + f["%y"])
                       ELSE 1900
        month  == IF f["%m"] # Unset THEN f["%m"]
                  ELSE IF f["%B"] # Unset THEN f["%B"]
                  ELSE IF f["%b"] # Unset THEN f["%b"] ELSE 1
        day    == IF f["%d"] # Unset THEN f["%d"] ELSE 1
        hour   == IF f["%H"] # Unset THEN f["%H"]
                  ELSE IF f["%I"] # Unset
                       THEN (IF f["%p"] = 1
                             THEN (IF f["%I"] = 12 THEN 12 ELSE f["%I"] + 12)
                             ELSE (IF f["%I"] = 12 THEN 0 ELSE f["%I"]))
                       ELSE 0
        minute == IF f["%M"] # Unset THEN f["%M"] ELSE 0
        second == IF f["%S"] # Unset THEN f["%S"] ELSE 0
    IN  IF year < 1 \/ day > DaysInMonth(year, month) \/ second > 59
        THEN Raise("ValueError")
        ELSE [kind |-> "datetime", year |-> year, month |-> month, day |-> day,
              hour |-> hour, minute |-> minute, second |-> second]

\* datetime.strptime(value, fmt); fmt None is a TypeError
strptime(value, fmt) ==
    IF fmt = NoneVal THEN Raise("TypeError")
    ELSE LET m == Match(value, fmt.toks, NoFields)
         IN  IF ~m.ok \/ m.rest # <<>> THEN Raise("ValueError")
             ELSE DatetimeOf(m.fields)

(***************************************************************************)
(* The decorated parsers                                                   *)
(***************************************************************************)

\* the function a decorated parser wraps, applied to a non-null text
Wrapped(fn, value, arg) ==
    IF fn = "parse_number" THEN parse_number_inner(value, arg)
    ELSE strptime(value, arg)          \* parse_date, parse_datetime, parse_time

\* with_clean without its "cleaned_value is None" return: the wrapped
\* function sees the null-like texts too
with_clean_no_return(fn, value, arg) == Wrapped(fn, Lower(Strip(value)), arg)

\* with_clean(fn): None for a null-like value, else fn on the cleaned text
with_clean(fn, value, arg) ==
    LET cleaned_value == clean_nulls(value)
    IN  IF cleaned_value = NoneVal THEN NoneVal
        ELSE Wrapped(fn, cleaned_value.chars, arg)

parse_number(value, decimal_separator) == with_clean("parse_number", value, decimal_separator)

parse_date(value, fmt) == with_clean("parse_date", value, fmt)

parse_datetime(value, fmt) == with_clean("parse_datetime", value, fmt)

parse_time(value, fmt) == with_clean("parse_time", value, fmt)

(***************************************************************************)
(* Format inference: parser.find_dt_format and the candidate lists of      *)
(* parser.parse_iterator                                                   *)
(***************************************************************************)

DateFormats ==
    << Fmt(<<"%Y", "-", "%m", "-", "%d">>),
       Fmt(<<"%Y", "/", "%m", "/", "%d">>),
       Fmt(<<"%m", "/", "%d", "/", "%Y">>),
       Fmt(<<"%m", "/", "%d", "/", "%y">>),
       Fmt(<<"%d", "/", "%m", "/", "%Y">>),
       Fmt(<<"%d", "/", "%m", "/", "%y">>),
       Fmt(<<"%d", ".", "%m", ".", "%Y">>),
       Fmt(<<"%d", ".", "%m", ".", "%y">>),
       Fmt(<<"%b", " ", "%d", ",", " ", "%Y">>),
       Fmt(<<"%B", " ", "%d", ",", " ", "%Y">>),
       Fmt(<<"%d", " ", "%b", " ", "%Y">>),
       Fmt(<<"%d", " ", "%B", " ", "%Y">>) >>

DatetimeFormats ==
    << Fmt(<<"%Y", "-", "%m", "-", "%d", " ", "%H", ":", "%M", ":", "%S">>),
       Fmt(<<"%Y", "-", "%m", "-", "%d", " ", "%H", ":", "%M">>),
       Fmt(<<"%m", "/", "%d", "/", "%Y", " ", "%H", ":", "%M", ":", "%S">>),
       Fmt(<<"%m", "/", "%d", "/", "%Y", " ", "%I", ":", "%M", ":", "%S", " ", "%p">>),
       Fmt(<<"%m", "/", "%d", "/", "%Y", " ", "%I", ":", "%M", " ", "%p">>),
       Fmt(<<"%d", "/", "%m", "/", "%Y", " ", "%H", ":", "%M", ":", "%S">>),
       Fmt(<<"%d", "/", "%m", "/", "%Y", " ", "%H", ":", "%M">>) >>

TimeFormats ==
    << Fmt(<<"%H", ":", "%M", ":", "%S">>),
       Fmt(<<"%H", ":", "%M">>),
       Fmt(<<"%I", ":", "%M", ":", "%S", " ", "%p">>),
       Fmt(<<"%I", ":", "%M", " ", "%p">>) >>

TemporalTypes == {"date", "datetime", "time"}

\* the parser and the candidate list parse_iterator uses for a temporal type
ParserOf(type) ==
    CASE type = "date" -> "parse_date"
      [] type = "datetime" -> "parse_datetime"
      [] type = "time" -> "parse_time"

CandidatesOf(type) ==
    CASE type = "date" -> DateFormats
      [] type = "datetime" -> DatetimeFormats
      [] type = "time" -> TimeFormats

\* find_dt_format returning a format as soon as one sampled value parses
\* under it
RECURSIVE find_dt_format_any(_, _, _)
find_dt_format_any(sample_values, format_fn, fmts) ==
    IF fmts = <<>> THEN NoneVal
    ELSE IF \E i \in 1..Len(sample_values) :
                ~IsRaise(with_clean(format_fn, sample_values[i], Head(fmts)))
         THEN Head(fmts)
         ELSE find_dt_format_any(sample_values, format_fn, Tail(fmts))

\* find_dt_format: the first format under which no sampled value raises,
\* None when there is none
RECURSIVE find_dt_format(_, _, _)
find_dt_format(sample_values, format_fn, fmts) ==
    IF fmts = <<>> THEN NoneVal
    ELSE IF \A i \in 1..Len(sample_values) :
                ~IsRaise(with_clean(format_fn, sample_values[i], Head(fmts)))
         THEN Head(fmts)
         ELSE find_dt_format(sample_values, format_fn, Tail(fmts))

(***************************************************************************)
(* One extraction: reader.read hands csv.table_iterator or                 *)
(* xls.table_iterator (variant) to parser.parse_iterator                   *)
(***************************************************************************)

VARIABLES
    variant,     \* "csv" or "xls": which table_iterator feeds the extraction
    grid,        \* the source: its rows, each a sequence of cell texts
    tspec,       \* data_start_row, data_end_row, start_col, end_col, skip_rows
    header,      \* the header columns: name, type and (optionally) decimal_separator
    row_idx,     \* table_iterator: the enumerate() index of the next row it reads
    handle,      \* the file / workbook handle: "none", "open" or "closed"
    src_done,    \* table_iterator has run to its end
    pc,          \* parse_iterator: "Sampling", "Inferring", "Streaming", "Done", "Failed", "Closed"
    sample,      \* get_sample_rows: the buffered rows
    formats,     \* the formats dict: column name -> format or None
    col_idx,     \* the inference loop's position in the header (1-based)
    chain_pos,   \* chain(sample, iterator): sample rows already taken
    emitted,     \* the TypedRows yielded so far, each with its source row index
    error        \* the exception that ended the extraction, where it was raised

vars == <<variant, grid, tspec, header, row_idx, handle, src_done, pc, sample,
          formats, col_idx, chain_pos, emitted, error>>

inputs == <<variant, grid, tspec, header>>

\* get_sample_rows keeps rows while idx < 100
SampleSize == 100

Min(a, b) == IF a <= b THEN a ELSE b

NRows == Len(grid)

Width == tspec.end_col - tspec.start_col + 1

(***************************************************************************)
(* csv.table_iterator                                                      *)
(***************************************************************************)

\* row[start_col : end_col + 1] of file row i (0-based): short when the row is
CsvRow(i) ==
    LET row == grid[i + 1]
    IN  Slice(row, tspec.start_col + 1, Min(tspec.end_col + 1, Len(row)))

\* the next file row at or after i that the loop yields, -1 at end of file
RECURSIVE CsvScan(_)
CsvScan(i) ==
    IF i >= NRows THEN -1
    ELSE IF i < tspec.data_start_row \/ i > tspec.data_end_row THEN CsvScan(i + 1)
    ELSE IF i \in tspec.skip_rows THEN CsvScan(i + 1)
    ELSE i

(***************************************************************************)
(* xls.table_iterator                                                      *)
(***************************************************************************)

\* str(cell.value).strip(), "" for an empty cell; iter_rows pads to max_col
XlsCell(r, c) ==
    LET row == grid[r + 1]
    IN  IF c + 1 <= Len(row) THEN Strip(row[c + 1]) ELSE <<>>

\* normalized_row of sheet row r (0-based)
XlsRow(r) == [k \in 1..Width |-> XlsCell(r, tspec.start_col + k - 1)]

\* the next enumerate() index at or after k that the loop yields, -1 when
\* iter_rows(min_row = data_start_row + 1, max_row = data_end_row + 1) ends;
\* k counts from the first row of the range
RECURSIVE XlsScan(_)
XlsScan(k) ==
    IF tspec.data_start_row + k > Min(tspec.data_end_row, NRows - 1) THEN -1
    ELSE IF k \in tspec.skip_rows THEN XlsScan(k + 1)
    ELSE k

(***************************************************************************)
(* next() on the row source, from enumerate() index pos                    *)
(***************************************************************************)

Scan(pos) == IF variant = "csv" THEN CsvScan(pos) ELSE XlsScan(pos)

\* the source row (0-based, absolute) read at enumerate() index at
SrcIndex(at) == IF variant = "csv" THEN at ELSE tspec.data_start_row + at

RowAt(at) == IF variant = "csv" THEN CsvRow(at) ELSE XlsRow(SrcIndex(at))

NoRow == [found |-> FALSE]

SourceNext(pos) ==
    LET at == Scan(pos)
    IN  IF at = -1 THEN NoRow
        ELSE [found |-> TRUE, at |-> at, src |-> SrcIndex(at), cells |-> RowAt(at)]

\* the handle once the suspended table_iterator is closed (the extraction is
\* abandoned or has raised): csv leaves its "with open(...)" block, xls has
\* its wb.close() only after the loop
HandleAfterClose ==
    IF handle = "open" /\ variant = "csv" THEN "closed" ELSE handle

(***************************************************************************)
(* parser.parse_iterator                                                   *)
(***************************************************************************)

EmptyDict == [n \in {} |-> NoneVal]

\* d[k] = v
Put(d, k, v) == [n \in DOMAIN d \cup {k} |-> IF n = k THEN v ELSE d[n]]

NoError == [exc |-> "none"]

\* the value of column i of a raw row, or the exception raised computing it
CellValue(cells, i) ==
    LET col == header[i]
    IN  IF i > Len(cells) THEN Raise("IndexError")                 \* row[idx]
        ELSE IF col.type = "date" THEN parse_date(cells[i], formats[col.name])
        ELSE IF col.type = "datetime" THEN parse_datetime(cells[i], formats[col.name])
        ELSE IF col.type = "time" THEN parse_time(cells[i], formats[col.name])
        ELSE IF col.type = "number"
             THEN IF "decimal_separator" \in DOMAIN col
                  THEN parse_number(cells[i], col.decimal_separator)
                  ELSE Raise("KeyError")                           \* col["decimal_separator"]
        ELSE StrVal(cells[i])

\* row_as_dict built column by column from column i on; the first exception
\* ends it
RECURSIVE ConvertFrom(_, _, _)
ConvertFrom(cells, i, row_as_dict) ==
    IF i > Len(header) THEN [kind |-> "row", dict |-> row_as_dict]
    ELSE LET v == CellValue(cells, i)
         IN  IF IsRaise(v) THEN [kind |-> "raise", exc |-> v.exc, col |-> i]
             ELSE ConvertFrom(cells, i + 1, Put(row_as_dict, header[i].name, v))

ConvertRow(cells) == ConvertFrom(cells, 1, EmptyDict)

\* get_sample_rows: one more row goes into the sample
SampleRow ==
    /\ pc = "Sampling"
    /\ LET r == SourceNext(row_idx)
       IN  /\ r.found
           /\ Len(sample) < SampleSize
           /\ sample' = Append(sample, [src |-> r.src, cells |-> r.cells])
           /\ row_idx' = r.at + 1
    /\ handle' = "open"
    /\ UNCHANGED <<inputs, src_done, pc, formats, col_idx, chain_pos, emitted, error>>

\* get_sample_rows: the row read at idx >= 100 ends the loop and is not kept
SampleBreak ==
    /\ pc = "Sampling"
    /\ LET r == SourceNext(row_idx)
       IN  /\ r.found
           /\ Len(sample) >= SampleSize
           /\ row_idx' = r.at + 1
    /\ pc' = "Inferring"
    /\ UNCHANGED <<inputs, handle, src_done, sample, formats, col_idx, chain_pos,
                   emitted, error>>

\* get_sample_rows: the row source ends first (and releases its handle)
SampleExhausted ==
    /\ pc = "Sampling"
    /\ ~SourceNext(row_idx).found
    /\ handle' = "closed"
    /\ src_done' = TRUE
    /\ pc' = "Inferring"
    /\ UNCHANGED <<inputs, row_idx, sample, formats, col_idx, chain_pos, emitted, error>>

\* the sample rows too short to have column col_idx
ShortRows == {k \in 1..Len(sample) : Len(sample[k].cells) < col_idx}

\* one turn of the inference loop: col_sample, and the format of a temporal column
InferColumn ==
    /\ pc = "Inferring"
    /\ ShortRows = {}
    /\ LET col == header[col_idx]
           col_sample == [k \in 1..Len(sample) |-> sample[k].cells[col_idx]]
       IN  formats' = IF col.type \in TemporalTypes
                      THEN Put(formats, col.name,
                               find_dt_format(col_sample, ParserOf(col.type),
                                              CandidatesOf(col.type)))
                      ELSE formats
    /\ col_idx' = col_idx + 1
    /\ pc' = IF col_idx = Len(header) THEN "Streaming" ELSE "Inferring"
    /\ UNCHANGED <<inputs, row_idx, handle, src_done, sample, chain_pos, emitted, error>>

\* col_sample = [row[idx] for row in sample] on a row without column idx
InferIndexError ==
    /\ pc = "Inferring"
    /\ ShortRows # {}
    /\ LET k == CHOOSE k \in ShortRows : \A j \in ShortRows : k <= j
       IN  error' = [exc |-> "IndexError", src |-> sample[k].src, col |-> col_idx]
    /\ pc' = "Failed"
    /\ handle' = HandleAfterClose
    /\ UNCHANGED <<inputs, row_idx, src_done, sample, formats, col_idx, chain_pos, emitted>>

\* a chain that yields the first buffered row a second time in place of
\* the second one
NextRaw_repeat ==
    IF chain_pos < Len(sample)
    THEN [found |-> TRUE, src |-> sample[IF chain_pos = 0 THEN 1 ELSE chain_pos].src,
          cells |-> sample[IF chain_pos = 0 THEN 1 ELSE chain_pos].cells]
    ELSE IF src_done THEN NoRow
    ELSE SourceNext(row_idx)

\* chain(sample, iterator): the next raw row, buffered rows first
NextRaw ==
    IF chain_pos < Len(sample)
    THEN [found |-> TRUE, src |-> sample[chain_pos + 1].src,
          cells |-> sample[chain_pos + 1].cells]
    ELSE IF src_done THEN NoRow
    ELSE SourceNext(row_idx)

\* the row NextRaw returned is consumed
Advance ==
    IF chain_pos < Len(sample)
    THEN /\ chain_pos' = chain_pos + 1
         /\ UNCHANGED row_idx
    ELSE /\ row_idx' = SourceNext(row_idx).at + 1
         /\ UNCHANGED chain_pos

\* a row is converted and yielded
EmitRow ==
    /\ pc = "Streaming"
    /\ NextRaw.found
    /\ LET r == NextRaw
           out == ConvertRow(r.cells)
       IN  /\ out.kind = "row"
           /\ emitted' = Append(emitted, [src |-> r.src, row |-> out.dict])
    /\ Advance
    /\ UNCHANGED <<inputs, handle, src_done, pc, sample, formats, col_idx, error>>

\* a cell of the row raises: the exception leaves parse_iterator
RowError ==
    /\ pc = "Streaming"
    /\ NextRaw.found
    /\ LET r == NextRaw
           out == ConvertRow(r.cells)
       IN  /\ out.kind = "raise"
           /\ error' = [exc |-> out.exc, src |-> r.src, col |-> out.col]
    /\ Advance
    /\ pc' = "Failed"
    /\ handle' = HandleAfterClose
    /\ UNCHANGED <<inputs, src_done, sample, formats, col_idx, emitted>>

\* the row source is exhausted: the sequence ends
EndOfStream ==
    /\ pc = "Streaming"
    /\ ~NextRaw.found
    /\ pc' = "Done"
    /\ handle' = "closed"
    /\ src_done' = TRUE
    /\ UNCHANGED <<inputs, row_idx, sample, formats, col_idx, chain_pos, emitted, error>>

\* the consumer stops iterating after a row: the suspended generators are closed
Abandon ==
    /\ pc = "Streaming"
    /\ emitted # <<>>
    /\ pc' = "Closed"
    /\ handle' = HandleAfterClose
    /\ UNCHANGED <<inputs, row_idx, src_done, sample, formats, col_idx, chain_pos,
                   emitted, error>>

Next ==
    \/ SampleRow
    \/ SampleBreak
    \/ SampleExhausted
    \/ InferColumn
    \/ InferIndexError
    \/ EmitRow
    \/ RowError
    \/ EndOfStream
    \/ Abandon

(***************************************************************************)
(* The extractions checked: sources, table ranges and headers              *)
(***************************************************************************)

\* skip scenarios: the source has rows 0..MaxRow + 1
MaxRow == 3

\* cell scenarios: at most this many rows of one column
MaxCellRows == 3

\* schema scenarios: at most this many rows
MaxSchemaRows == 2

\* long scenarios: the source has up to SampleSize + MaxExtra rows
MaxExtra == 2

Variants == {"csv", "xls"}

\* column names, as the texts they are
DateName == <<"D", "a", "t", "e">>

AtName == <<"A", "t">>

TimeName == <<"T", "i", "m", "e">>

ProductName == <<"P", "r", "o", "d", "u", "c", "t">>

AmountName == <<"A", "m", "o", "u", "n", "t">>

Col(name, type) == [name |-> name, type |-> type]

NumCol(name, sep) == [name |-> name, type |-> "number", decimal_separator |-> sep]

TSpec(a, b, c, d, sk) ==
    [data_start_row |-> a, data_end_row |-> b, start_col |-> c, end_col |-> d,
     skip_rows |-> sk]

Scenario(v, g, t, h) == [variant |-> v, grid |-> g, tspec |-> t, header |-> h]

\* Row ranges and skip sets over a source whose row i reads "r<i>", "x"; the
\* range may end one row past the source.
SkipGrid == [i \in 1..(MaxRow + 2) |-> << <<"r", Digits[i]>>, <<"x">> >>]

SkipScenarios ==
    { Scenario(v, SkipGrid, TSpec(ab[1], ab[2], 0, 1, sk),
               <<Col(<<"i", "d">>, "str"), Col(<<"t", "a", "g">>, "str")>>) :
        v \in Variants,
        ab \in {p \in (0..MaxRow) \X (0..(MaxRow + 2)) : p[1] <= p[2]},
        sk \in SUBSET (0..(MaxRow + 1)) }

DateCells ==
    { <<"2", "0", "2", "4", "-", "0", "1", "-", "1", "5">>,         \* 2024-01-15
      <<"0", "1", "/", "0", "2", "/", "2", "0", "2", "4">>,         \* 01/02/2024
      <<"1", "5", "/", "0", "2", "/", "2", "0", "2", "4">>,         \* 15/02/2024
      <<"J", "a", "n", " ", "5", ",", " ", "2", "0", "2", "4">>,    \* Jan 5, 2024
      <<" ", "N", "/", "A", " ">>,                                  \* " N/A "
      <<"n", ".", "d", ".">> }                                      \* n.d.

DatetimeCells ==
    { <<"2", "0", "2", "4", "-", "0", "1", "-", "1", "5", " ",
        "1", "0", ":", "3", "0", ":", "0", "0">>,                   \* 2024-01-15 10:30:00
      <<"2", "0", "2", "4", "-", "0", "1", "-", "1", "5", " ",
        "1", "0", ":", "3", "0">>,                                  \* 2024-01-15 10:30
      <<"0", "1", "/", "1", "5", "/", "2", "0", "2", "4", " ",
        "1", ":", "0", "5", " ", "P", "M">>,                        \* 01/15/2024 1:05 PM
      <<>>,                                                         \* empty
      <<"s", "o", "o", "n">> }                                      \* soon

TimeCells ==
    { <<"1", "0", ":", "3", "0", ":", "1", "5">>,                   \* 10:30:15
      <<"1", "0", ":", "3", "0">>,                                  \* 10:30
      <<"1", ":", "0", "5", " ", "P", "M">>,                        \* 1:05 PM
      <<"-", "-">>,                                                 \* --
      <<"n", "o", "o", "n">> }                                      \* noon

NumberCells ==
    { <<"1", "0", "0", ".", "1", "2">>,                             \* 100.12
      <<"$", "1", ",", "2", "3", "4", ".", "5", "6">>,              \* $1,234.56
      <<"2", "5", ",", "5", "%">>,                                  \* 25,5%
      <<"1", "2", "a", "b", "c">>,                                  \* 12abc
      <<" ", "N", "a", "N", " ">>,                                  \* " NaN "
      <<>> }                                                        \* empty

StrCells ==
    { <<"i", "P", "h", "o", "n", "e", " ", "4">>,                   \* iPhone 4
      <<" ", "N", "/", "A", " ">>,                                  \* " N/A "
      <<>>,                                                         \* empty
      <<"N", "u", "l", "l">> }                                      \* Null

\* a column declaration and the cell texts tried under it
ColumnCases ==
    { <<Col(DateName, "date"), DateCells>>,
      <<Col(AtName, "datetime"), DatetimeCells>>,
      <<Col(TimeName, "time"), TimeCells>>,
      <<Col(ProductName, "str"), StrCells>>,
      <<NumCol(AmountName, "."), NumberCells>>,
      <<NumCol(AmountName, ","), NumberCells>>,
      <<Col(AmountName, "number"), NumberCells>> }         \* no decimal_separator key

\* One column, every choice of up to MaxCellRows cells, the range being the
\* whole source.
CellScenarios ==
    UNION { { Scenario(v, g, TSpec(0, IF Len(g) = 0 THEN 0 ELSE Len(g) - 1, 0, 0, {}),
                       <<cc[1]>>) :
                v \in Variants,
                g \in UNION { [1..n -> {<<c>> : c \in cc[2]}] : n \in 0..MaxCellRows } } :
            cc \in ColumnCases }

SchemaCols(name) == {NumCol(name, "."), Col(name, "str"), Col(name, "bool")}

SchemaHeaders ==
    { <<a>> : a \in SchemaCols(<<"a">>) }
    \cup { <<a, b>> : a \in SchemaCols(<<"a">>), b \in SchemaCols(<<"b">>) }
    \cup { <<a, b, c>> : a \in SchemaCols(<<"a">>), b \in SchemaCols(<<"b">>),
                         c \in SchemaCols(<<"c">>) }

\* Headers of one to three columns, over rectangles one to three columns
\* wide on a source two columns wide.
SchemaScenarios ==
    { Scenario(v, [i \in 1..n |-> << <<"1">>, <<"x">> >>],
               TSpec(0, IF n = 0 THEN 0 ELSE n - 1, 0, d, {}), h) :
        v \in Variants, n \in 0..MaxSchemaRows, d \in 0..2, h \in SchemaHeaders }

\* a column declaration, the text of its cells and the text of the odd cell
LongCases ==
    { <<NumCol(AmountName, "."), <<"1">>, <<"1", "x">> >>,              \* 1, 1x
      <<Col(DateName, "date"),
        <<"2", "0", "2", "4", "-", "0", "1", "-", "1", "5">>,            \* 2024-01-15
        <<"1", "5", "/", "0", "2", "/", "2", "0", "2", "4">> >> }        \* 15/02/2024

\* Ranges as long as the sample and longer: every cell reads the same,
\* except that one row from the last sampled one on may hold the odd cell.
LongScenarios ==
    { Scenario(v, [i \in 1..(SampleSize + nb[1]) |->
                      IF i = nb[2] THEN <<lc[3]>> ELSE <<lc[2]>>],
               TSpec(0, SampleSize + nb[1] - 1, 0, 0, {}),
               <<lc[1]>>) :
        v \in Variants,
        lc \in LongCases,
        nb \in {p \in (0..MaxExtra) \X (0..(SampleSize + MaxExtra)) :
                   p[2] = 0 \/ (p[2] >= SampleSize /\ p[2] <= SampleSize + p[1])} }

\* The sales table of the end-to-end scenario: a date, a str and a number
\* column.
ExampleHeader ==
    <<Col(DateName, "date"), Col(ProductName, "str"), NumCol(AmountName, ".")>>

ExampleRow ==
    << <<"2", "0", "2", "3", "-", "1", "2", "-", "1", "0">>,                 \* 2023-12-10
       <<"i", "P", "h", "o", "n", "e", " ", "4">>,                           \* iPhone 4
       <<"1", "0", "0", ".", "1", "2">> >>                                   \* 100.12

ExampleGrid ==
    << ExampleRow,
       << <<"2", "0", "2", "3", "-", "1", "2", "-", "2", "3">>,              \* 2023-12-23
          <<"M", "a", "c", "B", "o", "o", "k", " ", "P", "r", "o">>,         \* MacBook Pro
          <<"1", "0", "0", "0", ".", "1", "3">> >> >>                        \* 1000.13

ExampleScenarios ==
    { Scenario(v, ExampleGrid, TSpec(0, b, 0, 2, {}), ExampleHeader) :
        v \in Variants, b \in 0..1 }

\* locale scenarios: at most this many rows of one number column
MaxLocaleRows == 2

LocaleCells ==
    { <<"$", "1", ",", "2", "3", "4", ".", "5", "6">>,              \* $1,234.56
      <<"1", ".", "2", "3", "4", ",", "5", "6">>,                   \* 1.234,56
      <<"2", "5", ".", "5", "%">>,                                  \* 25.5%
      <<"<euro>", " ", "1", ".", "2", "3", "4", ",", "5", "6">>,    \* € 1.234,56
      <<"1", ".", "2", ".", "3">>,                                  \* 1.2.3
      <<"5", " ", "0", "\t", "%">>,                                 \* 5 0<tab>%
      <<"<pound>", "-", "7", ",", "5">> }                           \* £-7,5

\* One number column under either decimal separator, every choice of up to
\* MaxLocaleRows cells.
LocaleScenarios ==
    { Scenario(v, g, TSpec(0, IF Len(g) = 0 THEN 0 ELSE Len(g) - 1, 0, 0, {}),
               <<NumCol(AmountName, sep)>>) :
        v \in Variants,
        sep \in {".", ","},
        g \in UNION { [1..n -> {<<c>> : c \in LocaleCells}] : n \in 0..MaxLocaleRows } }

\* duplicate-name scenarios: at most this many rows
MaxDupRows == 1

\* column names as the boundary decision gives them
RawNames ==
    { <<"D", "a", "y">>,                                \* Day
      <<"D", "a", "y", " ">>,                           \* "Day "
      <<"D", " ", "1">>,                                \* D 1
      <<"D", "_", "1">>,                                \* D_1
      <<>>,                                             \* empty
      <<"c", "o", "l", "u", "m", "n", "_", "2">> }      \* column_2

DupCells ==
    { <<"2", "0", "2", "4", "-", "0", "1", "-", "1", "5">>,         \* 2024-01-15
      <<"1", "5", "/", "0", "2", "/", "2", "0", "2", "4">> }        \* 15/02/2024

\* Two columns, each a date or a str column, under every pair of given
\* names, over rows of two date texts.
DupScenarios ==
    { Scenario(v, g, TSpec(0, Len(g) - 1, 0, 1, {}),
               <<Col(nn[1], tt[1]), Col(nn[2], tt[2])>>) :
        v \in Variants,
        nn \in RawNames \X RawNames,
        tt \in {"date", "str"} \X {"date", "str"},
        g \in UNION { [1..n -> DupCells \X DupCells] : n \in 1..MaxDupRows } }

\* str(n) for a natural number
RECURSIVE Decimal(_)
Decimal(n) ==
    IF n < 10 THEN <<Digits[n + 1]>>
    ELSE Decimal(n \div 10) \o <<Digits[(n % 10) + 1]>>

\* reader.read: col["name"].strip().replace(" ", "_"), and
\* f"column_{col_index + 1}" for a name left empty
NormalizeName(name, col_index) ==
    LET n == ReplaceChar(Strip(name), " ", "_")
    IN  IF n = <<>>
        THEN <<"c", "o", "l", "u", "m", "n", "_">> \o Decimal(col_index + 1)
        ELSE n

\* the header_columns of the boundary decision after the loop over them
NormalizeHeader(h) ==
    [i \in 1..Len(h) |-> [h[i] EXCEPT !.name = NormalizeName(h[i].name, i - 1)]]

\* the state before the first next() of an extraction of scenario sc
Setup(sc) ==
    /\ variant = sc.variant
    /\ grid = sc.grid
    /\ tspec = sc.tspec
    /\ header = NormalizeHeader(sc.header)
    /\ row_idx = 0
    /\ handle = "none"
    /\ src_done = FALSE
    /\ pc = "Sampling"
    /\ sample = <<>>
    /\ formats = EmptyDict
    /\ col_idx = 1
    /\ chain_pos = 0
    /\ emitted = <<>>
    /\ error = NoError

Init ==
    \/ \E sc \in SkipScenarios : Setup(sc)
    \/ \E sc \in CellScenarios : Setup(sc)
    \/ \E sc \in SchemaScenarios : Setup(sc)
    \/ \E sc \in LongScenarios : Setup(sc)
    \/ \E sc \in ExampleScenarios : Setup(sc)
    \/ \E sc \in LocaleScenarios : Setup(sc)
    \/ \E sc \in DupScenarios : Setup(sc)

Spec == Init /\ [][Next]_vars

(***************************************************************************)
(* Properties                                                              *)
(***************************************************************************)

RangeLen == tspec.data_end_row - tspec.data_start_row + 1

\* the source contains every row of the range
SourceHasRange == tspec.data_end_row < NRows

\* the members of a finite set of integers, ascending
RECURSIVE AscSeq(_)
AscSeq(S) ==
    IF S = {} THEN <<>>
    ELSE LET m == CHOOSE x \in S : \A y \in S : x <= y
         IN  <<m>> \o AscSeq(S \ {m})

\* the source row indices of the TypedRows emitted so far
EmittedIdx == [k \in 1..Len(emitted) |-> emitted[k].src]

\* the rows of the table: in the range, in the source, not in skip_rows
TableRows ==
    {i \in tspec.data_start_row..Min(tspec.data_end_row, NRows - 1) :
        i \notin tspec.skip_rows}

\* the rows the row source of this variant hands to the assembler
PassedRows ==
    {i \in tspec.data_start_row..Min(tspec.data_end_row, NRows - 1) :
        IF variant = "csv" THEN i \notin tspec.skip_rows
        ELSE (i - tspec.data_start_row) \notin tspec.skip_rows}

\* the raw row the row source makes of source row i
RawRow(i) == IF variant = "csv" THEN CsvRow(i) ELSE XlsRow(i)

\* the cell text is in the null vocabulary, whatever its case and padding
IsNullText(cell) == Lower(Strip(cell)) \in NULL_VALUES

\* no later column of the header has column i's name
LastOfName(i) == \A j \in (i + 1)..Len(header) : header[j].name # header[i].name

OnlyOfName(i) == \A j \in 1..Len(header) : j # i => header[j].name # header[i].name

\* every cell of the row converts under the formats resolved
RowParses(i) == ConvertRow(RawRow(i)).kind = "row"

\* C1: with skip_rows empty, over a source that contains the whole range and
\* whose cells all parse, the sequence ends after exactly
\* data_end_row - data_start_row + 1 TypedRows, whatever the range length.
C1_EmitsWholeRange ==
    (/\ pc = "Done"
     /\ tspec.skip_rows = {}
     /\ SourceHasRange
     /\ \A i \in tspec.data_start_row..tspec.data_end_row : RowParses(i))
    => Len(emitted) = RangeLen

\* C2: in both variants the rows produced are exactly the rows of the range
\* whose absolute index is not in skip_rows, in ascending order (stated for
\* ranges that fit the sample, where the assembler passes every row on).
C2_SkipRowsAbsolute ==
    (pc = "Done" /\ RangeLen <= SampleSize) => EmittedIdx = AscSeq(TableRows)

\* some temporal column's inference found no format
Unresolved ==
    \E i \in 1..Len(header) :
        /\ header[i].type \in TemporalTypes
        /\ header[i].name \in DOMAIN formats
        /\ formats[header[i].name] = NoneVal

\* C3: when no candidate fits a temporal column's sample the extraction
\* fails while inferring: it never streams with the format unresolved and
\* never emits a row.
C3_NoFormatFoundIsFatal ==
    Unresolved => (pc \notin {"Streaming", "Done", "Closed"} /\ emitted = <<>>)

KnownTypes == {"number", "date", "datetime", "time", "str"}

SchemaBad ==
    \/ Len(header) # Width
    \/ \E i \in 1..Len(header) : header[i].type \notin KnownTypes

\* C4: a header whose length differs from the rectangle width, or with a
\* column of unknown type, fails the extraction before any TypedRow is
\* emitted, for an empty row range too.
C4_SchemaMismatchIsFatal ==
    SchemaBad => (emitted = <<>> /\ pc \notin {"Done", "Closed"})

\* C5: in no terminal state of an extraction (exhausted, abandoned, failed)
\* is the row-source handle still open, in either variant.
C5_HandleReleased ==
    pc \in {"Done", "Failed", "Closed"} => handle # "open"

\* column i of the row holds a non-null text that its column's parser
\* rejects (a malformed number, a temporal text not in the resolved format)
CellFails(cells, i) ==
    /\ i <= Len(cells)
    /\ ~IsNullText(cells[i])
    /\ \/ /\ header[i].type = "number"
          /\ "decimal_separator" \in DOMAIN header[i]
          /\ IsRaise(parse_number_inner(Lower(Strip(cells[i])),
                                        header[i].decimal_separator))
       \/ /\ header[i].type \in TemporalTypes
          /\ header[i].name \in DOMAIN formats
          /\ formats[header[i].name] # NoneVal
          /\ IsRaise(strptime(Lower(Strip(cells[i])), formats[header[i].name]))

\* the rows handed to the assembler that hold a failing cell
FailingRows ==
    {i \in PassedRows : \E c \in 1..Len(header) : CellFails(RawRow(i), c)}

\* C6: the typed sequence aborts at the first row with a failing cell:
\* neither that row nor a later one is ever emitted, the sequence does not
\* end normally, and when it ends with the parse error every row before the
\* failing one has been emitted.
C6_AbortsAtFailingRow ==
    (pc \in {"Streaming", "Done", "Failed", "Closed"} /\ FailingRows # {}) =>
        LET b == CHOOSE x \in FailingRows : \A y \in FailingRows : x <= y
        IN  /\ \A k \in 1..Len(emitted) : emitted[k].src < b
            /\ pc # "Done"
            /\ (pc = "Failed" /\ error.exc = "ValueError") =>
                   /\ error.src = b
                   /\ EmittedIdx = AscSeq({i \in PassedRows : i < b})

\* C7: a row narrower than the requested column span never makes the
\* extraction raise; its missing trailing cells read as empty, hence null
\* in a number or temporal column.
C7_ShortRowNeverRaises ==
    Len(header) = Width =>
        /\ error.exc # "IndexError"
        /\ \A k \in 1..Len(emitted) : \A i \in 1..Len(header) :
               (/\ i > Len(RawRow(emitted[k].src))
                /\ header[i].type \in TemporalTypes \cup {"number"}
                /\ LastOfName(i))
               => emitted[k].row[header[i].name] = NoneVal

\* C8: a str column's cell yields null when its trimmed, lower-cased text is
\* in the null vocabulary, and the text itself, casing kept, otherwise.
C8_StrCellsNullNormalized ==
    \A k \in 1..Len(emitted) : \A i \in 1..Len(header) :
        (/\ header[i].type = "str"
         /\ i <= Len(RawRow(emitted[k].src))
         /\ LastOfName(i))
        => emitted[k].row[header[i].name] =
              IF IsNullText(RawRow(emitted[k].src)[i]) THEN NoneVal
              ELSE StrVal(RawRow(emitted[k].src)[i])

\* the texts sampled for column i
ColSample(i) == [k \in 1..Len(sample) |-> sample[k].cells[i]]

\* C9: in a number, date, datetime or time column a cell whose text is in
\* the null vocabulary yields null in its TypedRow and is never where a
\* parse error is raised, whatever format was resolved and whatever
\* decimal_separator is declared; and null cells of the sample never leave
\* a column without a format.
C9_NullCellsYieldNull ==
    /\ \A k \in 1..Len(emitted) : \A i \in 1..Len(header) :
           (/\ header[i].type \in TemporalTypes \cup {"number"}
            /\ i <= Len(RawRow(emitted[k].src))
            /\ IsNullText(RawRow(emitted[k].src)[i])
            /\ LastOfName(i))
           => emitted[k].row[header[i].name] = NoneVal
    /\ (pc = "Failed" /\ error.exc \in {"ValueError", "TypeError"}) =>
           ~IsNullText(RawRow(error.src)[error.col])
    /\ \A i \in 1..Len(header) :
           (/\ i < col_idx
            /\ header[i].type \in TemporalTypes
            /\ OnlyOfName(i)
            /\ \A k \in 1..Len(sample) : IsNullText(ColSample(i)[k]))
           => formats[header[i].name] # NoneVal

\* a null text in a temporal column came out as null beside a parsed row
C9_Witness ==
    /\ pc = "Done"
    /\ Len(emitted) >= 2
    /\ header[1].type \in TemporalTypes
    /\ \E k \in 1..Len(emitted) :
           /\ RawRow(emitted[k].src)[1] # <<>>
           /\ IsNullText(RawRow(emitted[k].src)[1])
           /\ emitted[k].row[header[1].name] = NoneVal
    /\ \E k \in 1..Len(emitted) : emitted[k].row[header[1].name] # NoneVal

\* value v parses under format f, null texts parsing under every format
Fits(v, f) == IsNullText(v) \/ ~IsRaise(strptime(Lower(Strip(v)), f))

\* f is the first of cands under which every value of vals parses, None
\* when there is none
FirstFitting(f, vals, cands) ==
    \/ /\ f = NoneVal
       /\ \A j \in 1..Len(cands) : \E k \in 1..Len(vals) : ~Fits(vals[k], cands[j])
    \/ \E j \in 1..Len(cands) :
           /\ f = cands[j]
           /\ \A k \in 1..Len(vals) : Fits(vals[k], cands[j])
           /\ \A h \in 1..(j - 1) : \E k \in 1..Len(vals) : ~Fits(vals[k], cands[h])

\* C10: the format inferred for a temporal column is the first candidate,
\* in list order, under which every sampled value parses, null values
\* parsing under all of them (so an all-null or empty sample gives the
\* first candidate); a format some non-null sampled value fails under is
\* never the result.
C10_FirstFittingFormat ==
    \A i \in 1..Len(header) :
        (/\ i < col_idx
         /\ header[i].type \in TemporalTypes
         /\ OnlyOfName(i))
        => FirstFitting(formats[header[i].name], ColSample(i),
                        CandidatesOf(header[i].type))

\* a date column resolved to a later candidate (%d/%m/%Y), over a sample
\* that holds a null text
C10_Witness ==
    /\ pc = "Streaming"
    /\ header[1].type = "date"
    /\ formats[header[1].name] = DateFormats[5]
    /\ \E k \in 1..Len(sample) : IsNullText(sample[k].cells[1])

\* the rows handed to the assembler that are not in the sample
BeyondSample == {i \in PassedRows : \A k \in 1..Len(sample) : sample[k].src # i}

\* the format the candidates of column i's type give for column i's sample
ResolvedFrom(i) ==
    find_dt_format(ColSample(i), ParserOf(header[i].type), CandidatesOf(header[i].type))

\* temporal column c of source row i holds a non-null text that the format
\* resolved for c rejects
Mismatch(i, c) ==
    /\ header[c].type \in TemporalTypes
    /\ c <= Len(RawRow(i))
    /\ ~IsNullText(RawRow(i)[c])
    /\ formats[header[c].name] # NoneVal
    /\ IsRaise(strptime(Lower(Strip(RawRow(i)[c])), formats[header[c].name]))

\* C11: from the first TypedRow on, the format of a temporal column is the
\* one resolved from the sample; every emitted value of the column was
\* parsed with it; and a row beyond the sample that does not match it ends
\* the extraction with a parse error: neither it nor a later row is emitted
\* and the sequence does not end normally.
C11_OneFormatPerColumn ==
    pc \in {"Streaming", "Done", "Failed", "Closed"} =>
        /\ \A c \in 1..Len(header) :
               (header[c].type \in TemporalTypes /\ OnlyOfName(c))
               => formats[header[c].name] = ResolvedFrom(c)
        /\ \A k \in 1..Len(emitted) : \A c \in 1..Len(header) :
               (/\ header[c].type \in TemporalTypes
                /\ c <= Len(RawRow(emitted[k].src))
                /\ LastOfName(c))
               => emitted[k].row[header[c].name] =
                      with_clean(ParserOf(header[c].type), RawRow(emitted[k].src)[c],
                                 formats[header[c].name])
        /\ \A i \in BeyondSample : \A c \in 1..Len(header) :
               Mismatch(i, c) =>
                   /\ pc # "Done"
                   /\ \A k \in 1..Len(emitted) : emitted[k].src < i

\* column c is a number column declared without decimal_separator
NoSeparator(c) ==
    header[c].type = "number" /\ "decimal_separator" \notin DOMAIN header[c]

\* C12: a number column declared without decimal_separator is parsed as
\* with decimal_separator ".": the absent key never fails the extraction,
\* every emitted value of the column is parse_number(cell, "."), and the
\* only error raised at the column is the one parse_number(cell, ".") raises.
C12_DefaultDecimalSeparator ==
    \A c \in 1..Len(header) :
        NoSeparator(c) =>
            /\ ~(pc = "Failed" /\ error.exc = "KeyError")
            /\ \A k \in 1..Len(emitted) :
                   (c <= Len(RawRow(emitted[k].src)) /\ LastOfName(c))
                   => emitted[k].row[header[c].name] =
                          parse_number(RawRow(emitted[k].src)[c], ".")
            /\ (pc = "Failed" /\ error.col = c /\ c <= Len(RawRow(error.src)))
               => IsRaise(parse_number(RawRow(error.src)[c], "."))

\* a calendar date without time of day, and a time of day without date
DateVal(y, m, d) == [kind |-> "date", year |-> y, month |-> m, day |-> d]

TimeVal(h, m, s) == [kind |-> "time", hour |-> h, minute |-> m, second |-> s]

\* value v, not null, is of the kind a column of this type yields
KindFits(v, type) ==
    CASE type = "date" -> v.kind = "date" /\ DOMAIN v = DOMAIN DateVal(1, 1, 1)
      [] type = "time" -> v.kind = "time" /\ DOMAIN v = DOMAIN TimeVal(0, 0, 0)
      [] type = "datetime" -> v.kind = "datetime"
      [] OTHER -> v.kind # "datetime"

\* C13: every non-null value of a date column is a date and every non-null
\* value of a time column a time of day; datetime values appear in datetime
\* columns only; and the row ["2023-12-10", "iPhone 4", "100.12"] under
\* the header [Date: date, Product: str, Amount: number] comes out as
\* {Date: date(2023, 12, 10), Product: "iPhone 4", Amount: 100.12}.
C13_DateAndTimeValues ==
    \A k \in 1..Len(emitted) :
        /\ \A c \in 1..Len(header) :
               (/\ c <= Len(RawRow(emitted[k].src))
                /\ LastOfName(c)
                /\ emitted[k].row[header[c].name] # NoneVal)
               => KindFits(emitted[k].row[header[c].name], header[c].type)
        /\ (header = ExampleHeader /\ RawRow(emitted[k].src) = ExampleRow)
           => emitted[k].row =
                  Put(Put(Put(EmptyDict, ExampleHeader[1].name, DateVal(2023, 12, 10)),
                          ExampleHeader[2].name, StrVal(ExampleRow[2])),
                      ExampleHeader[3].name, Norm(10012, -2))

CurrencyGlyphs == {"$", "<euro>", "<pound>", "<yen>"}

\* the cell text ends, whitespace apart, with a percent sign
PercentMarked(t) ==
    LET w == Remove(t, Whitespace) IN w # <<>> /\ w[Len(w)] = "%"

\* the cell text without whitespace, without its trailing percent sign and
\* without currency glyphs
Bare(t) ==
    LET w == Remove(t, Whitespace)
    IN  Remove(IF PercentMarked(t) THEN Slice(w, 1, Len(w) - 1) ELSE w, CurrencyGlyphs)

\* the locale rule: under "," the "." are dropped and the "," become ".",
\* otherwise the "," are dropped
LocaleCleaned(t, sep) ==
    IF sep = "," THEN ReplaceChar(Remove(Bare(t), {"."}), ",", ".")
    ELSE Remove(Bare(t), {","})

\* the number the rule gives for a non-null cell text: the cleaned string
\* converted, over 100 when the percent sign was there; or the conversion's error
LocaleNumber(t, sep) ==
    LET n == FloatOf(Lower(LocaleCleaned(t, sep)))
    IN  IF ~IsRaise(n) /\ PercentMarked(t) /\ "mant" \in DOMAIN n
        THEN Norm(n.mant, n.exp - 2)
        ELSE n

\* the three worked numbers: 1234.56, 1234.56 and 0.255
NumberExamples ==
    /\ parse_number(<<"$", "1", ",", "2", "3", "4", ".", "5", "6">>, ".") = Norm(123456, -2)
    /\ parse_number(<<"1", ".", "2", "3", "4", ",", "5", "6">>, ",") = Norm(123456, -2)
    /\ parse_number(<<"2", "5", ".", "5", "%">>, ".") = Norm(255, -3)

\* the TypedRow emitted last, if any (every TypedRow is the last one in the
\* state its emission leads to)
LastEmitted == IF emitted = <<>> THEN {} ELSE {Len(emitted)}

\* C14: the value of a number column with a non-null cell, in each TypedRow
\* as it is emitted, is the number the locale rule gives under the column's
\* decimal_separator; a ValueError at a number column is raised exactly at
\* a non-null cell whose cleaned string does not convert; and "$1,234.56"
\* under "." is 1234.56, "1.234,56" under "," is 1234.56 and "25.5%" is
\* 0.255.
C14_LocaleRule ==
    /\ \A k \in LastEmitted : \A c \in 1..Len(header) :
           (/\ header[c].type = "number"
            /\ "decimal_separator" \in DOMAIN header[c]
            /\ c <= Len(RawRow(emitted[k].src))
            /\ ~IsNullText(RawRow(emitted[k].src)[c])
            /\ LastOfName(c))
           => emitted[k].row[header[c].name] =
                  LocaleNumber(RawRow(emitted[k].src)[c], header[c].decimal_separator)
    /\ (pc = "Failed" /\ error.exc = "ValueError" /\ header[error.col].type = "number")
       => /\ ~IsNullText(RawRow(error.src)[error.col])
          /\ IsRaise(LocaleNumber(RawRow(error.src)[error.col],
                                  header[error.col].decimal_separator))
    /\ NumberExamples

\* "1.234,56" came out as 1234.56 under "," beside a percentage
C14_Witness ==
    /\ header[1].type = "number"
    /\ "decimal_separator" \in DOMAIN header[1]
    /\ header[1].decimal_separator = ","
    /\ \E k \in 1..Len(emitted) :
           /\ RawRow(emitted[k].src)[1] = <<"1", ".", "2", "3", "4", ",", "5", "6">>
           /\ emitted[k].row[header[1].name] = Norm(123456, -2)
    /\ \E k \in 1..Len(emitted) :
           /\ PercentMarked(RawRow(emitted[k].src)[1])
           /\ emitted[k].row[header[1].name] = Norm(255, -2)

\* the source row indices of the buffered sample rows
SampleIdx == {sample[k].src : k \in 1..Len(sample)}

\* C15: the TypedRows come in strictly ascending source-row order, so none
\* twice; the k-th TypedRow, up to the sample's length, is made of the k-th
\* buffered row; every later one is made of a row beyond the sample, after
\* all the sampled ones; and a sequence that ends normally has emitted
\* every buffered row.
C15_AscendingOnce ==
    /\ \A k \in 1..(Len(emitted) - 1) : emitted[k].src < emitted[k + 1].src
    /\ \A k \in 1..Len(emitted) :
           IF k <= Len(sample)
           THEN emitted[k].src = sample[k].src
           ELSE /\ emitted[k].src \in BeyondSample
                /\ \A i \in SampleIdx : i < emitted[k].src
    /\ pc = "Done" => Len(emitted) >= Len(sample)

\* a full sample was emitted, then a row beyond it, and the sequence ended
C15_Witness ==
    /\ pc = "Done"
    /\ Len(sample) = SampleSize
    /\ Len(emitted) > Len(sample)

\* C16: once every column is inferred, the format held for the temporal
\* column at each position is the one inferred from that position's own
\* sampled values, also when another column bears the same name; and every
\* TypedRow has as many entries as the header has columns.
C16_FormatPerPosition ==
    /\ (pc \in {"Streaming", "Done", "Failed", "Closed"} /\ col_idx > Len(header)) =>
           \A c \in 1..Len(header) :
               header[c].type \in TemporalTypes
               => formats[header[c].name] = ResolvedFrom(c)
    /\ \A k \in 1..Len(emitted) : Cardinality(DOMAIN emitted[k].row) = Len(header)

====
